---- MODULE Spec2Model ----
(***************************************************************************)
(* Kids Savings Account: the balance accrual engine (schedule, balance     *)
(* calculator, aggregation, orchestration) and the ledger / account /      *)
(* transfer services that mutate the stored accounts.                      *)
(*                                                                         *)
(* Time.  An instant is a number of seconds since local standard midnight  *)
(* of 1 January BaseYear (the source counts milliseconds since the Unix    *)
(* epoch; the millisecond factor is dropped so that a year of instants     *)
(* fits TLC's integers).  A JavaScript Date is modelled by its instant;    *)
(* its local fields are derived through the device time zone TzOffset.     *)
(*                                                                         *)
(* Optional values (amount?, frequency?, goal?) are sequences of length    *)
(* at most one: << >> is undefined, <<v>> is the value v.                   *)
(***************************************************************************)
EXTENDS Integers, Sequences, FiniteSets, TLC

\* ------------------------------------------------------------------------
\* Optional values
\* ------------------------------------------------------------------------
Undefined == << >>

Some(v) == <<v>>

Has(o) == o # << >>

Val(o) == o[1]

\* ------------------------------------------------------------------------
\* Program constants (domain/types CONSTANTS)
\* ------------------------------------------------------------------------
MIN_BALANCE == 0

MS_PER_DAY == 24 * 60 * 60

MS_PER_WEEK == 7 * 24 * 60 * 60

CHILD_FILE_PREFIX == "CHILD-"

ACCOUNT_FILE_PREFIX == "ACCOUNT-"

\* ------------------------------------------------------------------------
\* The device calendar (what JavaScript's Date computes in local time)
\* ------------------------------------------------------------------------
BaseYear == 2024

\* Daylight saving: clocks go forward one hour at 02:00 standard time on
\* day DstStartDay and back at 02:00 daylight time on day DstEndDay (day
\* numbers count from 1 January BaseYear = day 0; 10 March and 3 November).
DstStartDay == 69

DstEndDay == 307

DstShift == 60 * 60

TzOffset(t) ==
    IF /\ t >= DstStartDay * MS_PER_DAY + 2 * 60 * 60
       /\ t < DstEndDay * MS_PER_DAY + 1 * 60 * 60
    THEN DstShift ELSE 0

\* local wall-clock seconds of an instant, and the instant of a wall-clock
\* reading (a reading inside the spring gap resolves forward, as Date does)
LocalSeconds(t) == t + TzOffset(t)

FromLocal(l) == IF TzOffset(l - DstShift) = DstShift THEN l - DstShift ELSE l

LocalDay(t) == LocalSeconds(t) \div MS_PER_DAY

LocalTimeOfDay(t) == LocalSeconds(t) % MS_PER_DAY

IsLeap(y) == (y % 4 = 0 /\ y % 100 # 0) \/ y % 400 = 0

DaysInYear(y) == IF IsLeap(y) THEN 366 ELSE 365

\* month is 0..11 as in Date.getMonth()
DaysInMonth(y, m) ==
    IF m = 1 THEN (IF IsLeap(y) THEN 29 ELSE 28)
    ELSE IF m \in {3, 5, 8, 10} THEN 30 ELSE 31

RECURSIVE DaysBeforeYear(_)
DaysBeforeYear(y) ==
    IF y <= BaseYear THEN 0 ELSE DaysBeforeYear(y - 1) + DaysInYear(y - 1)

RECURSIVE DaysBeforeMonth(_, _)
DaysBeforeMonth(y, m) ==
    IF m <= 0 THEN 0 ELSE DaysBeforeMonth(y, m - 1) + DaysInMonth(y, m - 1)

\* day number of (year, month, day-of-month); a day-of-month past the end of
\* the month rolls over into the following month(s), as Date normalises it
MakeDay(y, m, d) == DaysBeforeYear(y) + DaysBeforeMonth(y, m) + (d - 1)

RECURSIVE YearFrom(_, _)
YearFrom(y, day) ==
    IF day < DaysBeforeYear(y + 1) THEN y ELSE YearFrom(y + 1, day)

GetFullYear(t) == YearFrom(BaseYear, LocalDay(t))

RECURSIVE MonthFrom(_, _, _)
MonthFrom(y, m, dayOfYear) ==
    IF dayOfYear < DaysBeforeMonth(y, m + 1) THEN m
    ELSE MonthFrom(y, m + 1, dayOfYear)

\* the month and the day of the month of day number day of year y
MonthOfDay(y, day) == MonthFrom(y, 0, day - DaysBeforeYear(y))

DateOfDay(y, day) == day - DaysBeforeYear(y) - DaysBeforeMonth(y, MonthOfDay(y, day)) + 1

GetMonth(t) == MonthOfDay(GetFullYear(t), LocalDay(t))

GetDate(t) == DateOfDay(GetFullYear(t), LocalDay(t))

\* Date.setFullYear / setMonth / setDate: replace one local field, keep the
\* others and the local time of day, normalise
SetFullYear(t, y) ==
    FromLocal(MakeDay(y, GetMonth(t), GetDate(t)) * MS_PER_DAY + LocalTimeOfDay(t))

SetMonth(t, m) ==
    FromLocal(MakeDay(GetFullYear(t), m, GetDate(t)) * MS_PER_DAY + LocalTimeOfDay(t))

SetDate(t, d) ==
    FromLocal(MakeDay(GetFullYear(t), GetMonth(t), d) * MS_PER_DAY + LocalTimeOfDay(t))

\* ------------------------------------------------------------------------
\* Schedule utilities (domain/calc/schedule.ts)
\* ------------------------------------------------------------------------
startOfDay(date) == FromLocal(LocalDay(date) * MS_PER_DAY)

addDays(date, days) == SetDate(date, GetDate(date) + days)

addWeeks(date, weeks) == addDays(date, weeks * 7)

\* the end of addMonths: a day that overflowed into the month after
\* normalizedMonth is set back to the last day of normalizedMonth
clampToMonth(result, normalizedMonth) ==
    IF GetMonth(result) # normalizedMonth THEN SetDate(result, 0) ELSE result

\* addMonths once targetMonth = getMonth() + months is known
addMonthsTo(date, targetMonth) ==
    clampToMonth(SetMonth(SetFullYear(date, GetFullYear(date) + (targetMonth \div 12)),
                          ((targetMonth % 12) + 12) % 12),
                 ((targetMonth % 12) + 12) % 12)

addMonths(date, months) == addMonthsTo(date, GetMonth(date) + months)

\* the loop of calculateMonthsBetween: MonthsLoop computes the next date,
\* MonthsTest compares it with the end
RECURSIVE MonthsLoop(_, _, _)
MonthsTest(next, end, months) ==
    IF next > end THEN months ELSE MonthsLoop(next, end, months + 1)

MonthsLoop(current, end, months) == MonthsTest(addMonths(current, 1), end, months)

calculateMonthsBetween(startDate, endDate) ==
    LET start == startOfDay(startDate)
        end == startOfDay(endDate)
    IN  IF end < start THEN 0 ELSE MonthsLoop(start, end, 0)

\* variant: the period that has begun is counted with the elapsed ones
calculatePeriodsBetween_inclusive(startDate, endDate, frequency) ==
    LET start == startOfDay(startDate)
        end == startOfDay(endDate)
    IN  IF end < start THEN 0
        ELSE IF frequency = "weekly" THEN (end - start) \div MS_PER_WEEK + 1
        ELSE IF frequency = "bi-weekly" THEN (end - start) \div (MS_PER_WEEK * 2) + 1
        ELSE IF frequency = "monthly" THEN calculateMonthsBetween(startDate, endDate) + 1
        ELSE 0

calculatePeriodsBetween(startDate, endDate, frequency) ==
    LET start == startOfDay(startDate)
        end == startOfDay(endDate)
    IN  IF end < start THEN 0
        ELSE IF frequency = "weekly" THEN (end - start) \div MS_PER_WEEK
        ELSE IF frequency = "bi-weekly" THEN (end - start) \div (MS_PER_WEEK * 2)
        ELSE IF frequency = "monthly" THEN calculateMonthsBetween(startDate, endDate)
        ELSE 0

nextDate(lastAccrual, i, frequency) ==
    IF frequency = "weekly" THEN addWeeks(lastAccrual, i)
    ELSE IF frequency = "bi-weekly" THEN addWeeks(lastAccrual, i * 2)
    ELSE addMonths(lastAccrual, i)

generateAccrualDates(lastAccrualTimestamp, currentTimestamp, frequency) ==
    LET periods == calculatePeriodsBetween(lastAccrualTimestamp, currentTimestamp, frequency)
    IN  [i \in 1..periods |-> startOfDay(nextDate(lastAccrualTimestamp, i, frequency))]

\* ------------------------------------------------------------------------
\* Numbers.  A JavaScript number that holds money or a percentage is
\* modelled in hundredths (Dollars(1) = 100), so that fractional inputs and
\* Math.ceil are not trivial.
\* ------------------------------------------------------------------------
Hundredths == 10 * 10

Dollars(n) == n * Hundredths

IsInteger(x) == x % Hundredths = 0

\* Math.ceil (ceiling, toward positive infinity)
Ceil(x) == (-((-x) \div Hundredths)) * Hundredths

Max(a, b) == IF a >= b THEN a ELSE b

Min(a, b) == IF a <= b THEN a ELSE b

\* ------------------------------------------------------------------------
\* Rounding utilities (domain/calc/round.ts)
\* ------------------------------------------------------------------------
roundUp(amount) == Ceil(amount)

\* (amount * percentage) / 100, both operands in hundredths
calculatePercentage(amount, percentage) ==
    roundUp(-((-(amount * percentage)) \div (Hundredths * 100)))

calculateInterest(balance, interestRate) == calculatePercentage(balance, interestRate)

\* ------------------------------------------------------------------------
\* Balance calculator (domain/calc/BalanceCalculator.ts)
\* ------------------------------------------------------------------------
RECURSIVE SumValues(_)
SumValues(ledger) ==
    IF ledger = << >> THEN 0 ELSE ledger[1].value + SumValues(Tail(ledger))

\* variant: the achieved flag is never seen
goalAchievedFlag_never(account) == FALSE

goalAchievedFlag(account) == Has(account.goal) /\ Val(account.goal).achieved

calculateCurrentBalance(account) == Max(MIN_BALANCE, SumValues(account.ledger))

calculateAccountBalance(account) == Max(MIN_BALANCE, SumValues(account.ledger))

\* variant: achieved accounts are summed like the others
RECURSIVE calculateChildTotalBalance_all(_)
calculateChildTotalBalance_all(accounts) ==
    IF accounts = << >> THEN 0
    ELSE Max(0, SumValues(accounts[1].ledger)) + calculateChildTotalBalance_all(Tail(accounts))

RECURSIVE calculateChildTotalBalance(_)
calculateChildTotalBalance(accounts) ==
    IF accounts = << >> THEN 0
    ELSE (IF goalAchievedFlag(accounts[1]) THEN 0
          ELSE Max(0, SumValues(accounts[1].ledger)))
         + calculateChildTotalBalance(Tail(accounts))

isGoalAchieved(account) ==
    IF account.type # "Goal" \/ ~Has(account.goal) THEN FALSE
    ELSE calculateAccountBalance(account) >= Val(account.goal).cost

SeqRange(s) == {s[i] : i \in DOMAIN s}

RECURSIVE SortedTimes(_)
SortedTimes(S) ==
    IF S = {} THEN << >>
    ELSE LET m == CHOOSE x \in S : \A y \in S : x <= y
         IN  <<m>> \o SortedTimes(S \ {m})

\* the Map<timestamp, AccrualPeriod>, as its values sorted by timestamp
accrualPeriods(times, allowanceDates, interestDates) ==
    [i \in DOMAIN times |->
        [timestamp |-> times[i],
         allowanceDue |-> times[i] \in allowanceDates,
         interestDue |-> times[i] \in interestDates]]

mergePeriods(allowanceDates, interestDates) ==
    accrualPeriods(SortedTimes(allowanceDates \cup interestDates),
                   allowanceDates, interestDates)

collectAccrualPeriods(account, startTimestamp, endTimestamp) ==
    mergePeriods(
        IF account.allowance.enabled /\ Has(account.allowance.frequency)
        THEN SeqRange(generateAccrualDates(startTimestamp, endTimestamp,
                                           Val(account.allowance.frequency)))
        ELSE {},
        IF account.interest.enabled /\ Has(account.interest.frequency)
        THEN SeqRange(generateAccrualDates(startTimestamp, endTimestamp,
                                           Val(account.interest.frequency)))
        ELSE {})

calculateInterestForPeriod(balance, config) ==
    IF ~config.enabled \/ ~Has(config.value) THEN 0
    ELSE IF Has(config.type) /\ Val(config.type) = "Percentage"
         THEN calculateInterest(balance, Val(config.value))
         ELSE roundUp(Val(config.value))

\* "Interest 5% (monthly)" / "Interest $5 (monthly)": kind, value, unit, frequency
formatInterestDescription(config) ==
    [kind |-> "Interest", value |-> Val(config.value),
     unit |-> IF Has(config.type) /\ Val(config.type) = "Percentage" THEN "%" ELSE "$",
     ref |-> Val(config.frequency)]

\* "Allowance $10 (weekly)"
formatAllowanceDescription(config) ==
    [kind |-> "Allowance", value |-> Val(config.amount), unit |-> "$",
     ref |-> Val(config.frequency)]

RECURSIVE SumAmounts(_)
SumAmounts(accruals) ==
    IF accruals = << >> THEN 0 ELSE accruals[1].amount + SumAmounts(Tail(accruals))

\* the interest step of one period: the accruals it adds
interestStep(account, period, runningBalance) ==
    IF period.interestDue /\ account.interest.enabled
    THEN LET interestAmount == calculateInterestForPeriod(runningBalance, account.interest)
         IN  IF interestAmount > 0
             THEN <<[timestamp |-> period.timestamp, accountName |-> account.name,
                     type |-> "interest", amount |-> interestAmount,
                     description |-> formatInterestDescription(account.interest)]>>
             ELSE << >>
    ELSE << >>

\* the allowance step of one period
allowanceStep(account, period) ==
    IF period.allowanceDue /\ account.allowance.enabled
    THEN LET allowanceAmount == IF Has(account.allowance.amount)
                                THEN Val(account.allowance.amount) ELSE 0
         IN  IF allowanceAmount > 0
             THEN <<[timestamp |-> period.timestamp, accountName |-> account.name,
                     type |-> "allowance", amount |-> allowanceAmount,
                     description |-> formatAllowanceDescription(account.allowance)]>>
             ELSE << >>
    ELSE << >>

\* variant: allowance first, and interest on the balance that holds it
periodAccruals_allowanceFirst(account, period, runningBalance) ==
    LET allowance == allowanceStep(account, period)
    IN  allowance \o interestStep(account, period, runningBalance + SumAmounts(allowance))

\* one iteration of the loop over periods: interest first, then allowance
periodAccruals(account, period, runningBalance) ==
    LET interest == interestStep(account, period, runningBalance)
    IN  interest \o allowanceStep(account, period)

\* the loop over the periods: processPeriods computes the accruals of the
\* first period, addAccruals adds them and goes on
RECURSIVE processPeriods(_, _, _, _)
addAccruals(account, periods, runningBalance, accruals, new) ==
    processPeriods(account, Tail(periods), runningBalance + SumAmounts(new), accruals \o new)

processPeriods(account, periods, runningBalance, accruals) ==
    IF periods = << >>
    THEN [runningBalance |-> runningBalance, accruals |-> accruals]
    ELSE addAccruals(account, periods, runningBalance, accruals,
                     periodAccruals(account, periods[1], runningBalance))

toLedgerEntry(accrual) ==
    [timestamp |-> accrual.timestamp, type |-> "Deposit",
     description |-> accrual.description, value |-> accrual.amount]

\* the CalculationResult built from the outcome of the loop
calculationResult(processed, currentTimestamp) ==
    [newBalance |-> processed.runningBalance,
     newTimestamp |-> currentTimestamp,
     accruals |-> processed.accruals,
     ledgerEntries |-> [i \in DOMAIN processed.accruals |->
                           toLedgerEntry(processed.accruals[i])]]

calculate(account, lastCalculationTimestamp, currentTimestamp) ==
    IF goalAchievedFlag(account)
    THEN [newBalance |-> calculateCurrentBalance(account),
          newTimestamp |-> lastCalculationTimestamp,
          accruals |-> << >>, ledgerEntries |-> << >>]
    ELSE IF currentTimestamp < lastCalculationTimestamp
    THEN [newBalance |-> calculateCurrentBalance(account),
          newTimestamp |-> lastCalculationTimestamp,
          accruals |-> << >>, ledgerEntries |-> << >>]
    ELSE calculationResult(
             processPeriods(account,
                            collectAccrualPeriods(account, lastCalculationTimestamp,
                                                  currentTimestamp),
                            calculateCurrentBalance(account), << >>),
             currentTimestamp)

\* ------------------------------------------------------------------------
\* Bounds and input sets
\* ------------------------------------------------------------------------
\* most service calls in a run of the model
MaxOps == 5

\* the instant of hour h of day d (local standard time)
At(d, h) == d * MS_PER_DAY + h * 60 * 60

\* values the device clock may return: 31 January noon and 8 days later
\* (day 0 is 1 January BaseYear)
NowValues == {At(30, 12), At(38, 12)}

ChildNames == {"Emma", "Noah"}

AccountNames == {"Savings", "Bike"}

\* amounts a user may type into the deposit form, and into the withdraw and
\* transfer forms
DepositAmounts == {Dollars(100)}

WithdrawAmounts == {Dollars(150)}

\* amounts with which the withdraw and the transfer of a stored account are
\* probed: below, at and above the balances that the model reaches
RequestAmounts == {Dollars(1), Dollars(100), Dollars(110), Dollars(150), Dollars(200)}

\* amounts typed into the withdraw and transfer forms in the specification
\* of the ledger operations
LedgerAmounts == {Dollars(100), Dollars(150)}

\* ------------------------------------------------------------------------
\* Names and file names (domain/validation.ts, domain/types.ts)
\* ------------------------------------------------------------------------
toLowerCase(s) ==
    CASE s = "Emma" -> "emma"
      [] s = "Noah" -> "noah"
      [] s = "Savings" -> "savings"
      [] s = "Bike" -> "bike"
      [] OTHER -> s

\* trim().toLowerCase(); no modelled name has surrounding white space
normalizeName(name) == toLowerCase(name)

isNameUnique(name, existingNames) ==
    ~\E i \in DOMAIN existingNames : normalizeName(existingNames[i]) = normalizeName(name)

validatePositiveAmount(amount) == IsInteger(amount) /\ amount > 0

buildChildFilename(childName) == CHILD_FILE_PREFIX \o toLowerCase(childName) \o ".txt"

buildAccountFilename(childName, accountName) ==
    ACCOUNT_FILE_PREFIX \o toLowerCase(childName) \o "-" \o toLowerCase(accountName) \o ".txt"

\* ------------------------------------------------------------------------
\* State
\* ------------------------------------------------------------------------
VARIABLES
    parent,        \* PARENT.txt: [name, children]
    childFiles,    \* CHILD-*.txt: file name -> [name, accounts, cb, cbts]
    accountFiles,  \* ACCOUNT-*.txt: file name -> account
    lastResult,    \* the outcome of the last service call
    ops,           \* how many service calls have been made
    clock,         \* the last reading of a device clock that never goes back
                   \* (kept by the specifications of a steady clock)
    probe,         \* the last call of a function of the domain layer: its
                   \* arguments and what it returned (kept by the
                   \* specifications of the domain functions)
    unwritable,    \* the files that the store fails to write (set by the
                   \* specification of the failing store)
    backupFiles,   \* the backup keys of the store (kept by the specification
                   \* of the deletions)
    tasks          \* the asynchronous calls in flight, each with its position
                   \* and what it holds in memory (kept by the specifications
                   \* of the interleaved calls)

vars == <<parent, childFiles, accountFiles, lastResult, ops, clock, probe, unwritable,
          backupFiles, tasks>>

\* LocalFileStore.putFile / deleteFile on one family of files
putFile(files, filename, content) ==
    [f \in DOMAIN files \cup {filename} |-> IF f = filename THEN content ELSE files[f]]

deleteFile(files, filename) == [f \in DOMAIN files \ {filename} |-> files[f]]

fileExists(files, filename) == filename \in DOMAIN files

\* AccountRepository.getAllForChild on given stores
getAllForChild(cFiles, aFiles, childName) ==
    IF ~fileExists(cFiles, buildChildFilename(childName)) THEN << >>
    ELSE LET names == cFiles[buildChildFilename(childName)].accounts
             present == SelectSeq(names,
                          LAMBDA n : fileExists(aFiles, buildAccountFilename(childName, n)))
         IN  [i \in DOMAIN present |-> aFiles[buildAccountFilename(childName, present[i])]]

\* ChildRepository.getAll
getAllChildren(par, cFiles) ==
    LET present == SelectSeq(par.children,
                     LAMBDA n : fileExists(cFiles, buildChildFilename(n)))
    IN  [i \in DOMAIN present |-> cFiles[buildChildFilename(present[i])]]

\* Array.prototype.sort((a, b) => a.timestamp - b.timestamp): stable
RECURSIVE insertByTimestamp(_, _)
insertByTimestamp(sorted, e) ==
    IF sorted = << >> THEN <<e>>
    ELSE IF sorted[Len(sorted)].timestamp <= e.timestamp THEN Append(sorted, e)
    ELSE Append(insertByTimestamp(SubSeq(sorted, 1, Len(sorted) - 1), e), sorted[Len(sorted)])

RECURSIVE sortByTimestamp(_)
sortByTimestamp(ledger) ==
    IF ledger = << >> THEN << >>
    ELSE insertByTimestamp(sortByTimestamp(SubSeq(ledger, 1, Len(ledger) - 1)),
                           ledger[Len(ledger)])

\* LedgerService.appendEntries: the account store afterwards, and whether it threw
appendEntries(aFiles, childName, accountName, entries) ==
    LET filename == buildAccountFilename(childName, accountName)
    IN  IF entries = << >> THEN [threw |-> FALSE, files |-> aFiles]
        ELSE IF ~fileExists(aFiles, filename) THEN [threw |-> TRUE, files |-> aFiles]
        ELSE IF filename \in unwritable THEN [threw |-> TRUE, files |-> aFiles]
        ELSE LET account == aFiles[filename]
                 ledger == sortByTimestamp(account.ledger \o entries)
             IN  [threw |-> FALSE,
                  files |-> putFile(aFiles, filename, [account EXCEPT !.ledger = ledger])]

\* what the last service call returned: "ok", or the error it threw
\* ("readOnly": an achieved goal account is read-only; "goalNotReached":
\* the balance is below the cost of the goal; "error": any other), and the
\* flags of its result object; accountErrors counts the accounts whose
\* error the call caught and wrote to the console
NoResult ==
    [status |-> "ok", clockSkewDetected |-> FALSE, wasCapped |-> FALSE, accountErrors |-> 0]

\* no function of the domain layer has been called
NoProbe == [fn |-> "none"]

Result(status) == [NoResult EXCEPT !.status = status]

Init ==
    /\ parent = [name |-> "Alex", children |-> << >>]
    /\ childFiles = << >>
    /\ accountFiles = << >>
    /\ lastResult = NoResult
    /\ ops = 0
    /\ clock = 0
    /\ probe = NoProbe
    /\ unwritable = {}
    /\ backupFiles = {}
    /\ tasks = << >>

\* ------------------------------------------------------------------------
\* Balance calculation service (services/BalanceCalculationService.ts)
\* ------------------------------------------------------------------------
\* the loop over the accounts of calculateForChild: processAccounts runs
\* the calculator on the first account, accountCalculated appends its ledger
\* entries, accountProcessed adds up the totals (or skips the account whose
\* append threw) and goes on
RECURSIVE processAccounts(_, _, _, _, _, _)
accountProcessed(aFiles, childName, accounts, cbts, now, totals, result, appended) ==
    IF appended.threw
    THEN processAccounts(aFiles, childName, Tail(accounts), cbts, now,
             [totals EXCEPT !.accountErrors = @ + 1])
    ELSE processAccounts(appended.files, childName, Tail(accounts), cbts, now,
             [totalAccruals |-> totals.totalAccruals + Len(result.accruals),
              totalAccruedAmount |-> totals.totalAccruedAmount
                                     + SumAmounts(result.accruals),
              accountErrors |-> totals.accountErrors])

accountCalculated(aFiles, childName, accounts, cbts, now, totals, result) ==
    accountProcessed(aFiles, childName, accounts, cbts, now, totals, result,
                     appendEntries(aFiles, childName, accounts[1].name,
                                   result.ledgerEntries))

processAccounts(aFiles, childName, accounts, cbts, now, totals) ==
    IF accounts = << >> THEN [files |-> aFiles, totals |-> totals]
    ELSE accountCalculated(aFiles, childName, accounts, cbts, now, totals,
                           calculate(accounts[1], cbts, now))

\* ChildRepository.updateBalance
updateBalance(cFiles, childName, balance, timestamp) ==
    LET filename == buildChildFilename(childName)
    IN  putFile(cFiles, filename,
                [cFiles[filename] EXCEPT !.cb = balance, !.cbts = timestamp])

\* variant: no reading counts as skew
isClockSkew_never(now, cbts) == FALSE

\* variant: the comparison is the wrong way round
isClockSkew_reversed(now, cbts) == now > cbts

\* the check for clock skew
isClockSkew(now, cbts) == now < cbts

\* the end of calculateForChild: the new total is stored with the clock
\* value, and the result is returned
childUpdated(cFiles, childName, now, accounts, done, newBalance) ==
    IF buildChildFilename(childName) \in unwritable
    THEN [threw |-> TRUE, cFiles |-> cFiles, aFiles |-> done.files, result |-> << >>,
          accountErrors |-> done.totals.accountErrors]
    ELSE [threw |-> FALSE,
          cFiles |-> updateBalance(cFiles, childName, newBalance, now),
          aFiles |-> done.files,
          result |-> <<[childName |-> childName,
                        clockSkewDetected |-> FALSE,
                        accountsProcessed |-> Len(accounts),
                        totalAccruals |-> done.totals.totalAccruals,
                        totalAccruedAmount |-> done.totals.totalAccruedAmount,
                        newBalance |-> newBalance, now |-> now]>>,
          accountErrors |-> done.totals.accountErrors]

\* the accounts are read again and the total of the child is recomputed
childProcessed(cFiles, childName, now, accounts, done) ==
    childUpdated(cFiles, childName, now, accounts, done,
                 calculateChildTotalBalance(getAllForChild(cFiles, done.files, childName)))

\* the accounts of the child are processed
childCalculation(cFiles, aFiles, childName, now, child, accounts) ==
    childProcessed(cFiles, childName, now, accounts,
                   processAccounts(aFiles, childName, accounts, child.cbts, now,
                                   [totalAccruals |-> 0, totalAccruedAmount |-> 0,
                                    accountErrors |-> 0]))

\* calculateForChild on given stores with the clock reading now
calculateForChild(cFiles, aFiles, childName, now) ==
    LET filename == buildChildFilename(childName)
    IN  IF ~fileExists(cFiles, filename)
        THEN [threw |-> TRUE, cFiles |-> cFiles, aFiles |-> aFiles, result |-> << >>,
              accountErrors |-> 0]
        ELSE IF isClockSkew(now, cFiles[filename].cbts)
        THEN [threw |-> FALSE, cFiles |-> cFiles, aFiles |-> aFiles,
              result |-> <<[childName |-> childName, clockSkewDetected |-> TRUE,
                            accountsProcessed |-> 0, totalAccruals |-> 0,
                            totalAccruedAmount |-> 0,
                            newBalance |-> cFiles[filename].cb, now |-> now]>>,
              accountErrors |-> 0]
        ELSE childCalculation(cFiles, aFiles, childName, now, cFiles[filename],
                              getAllForChild(cFiles, aFiles, childName))

\* the stores and the outcome after a calculateForChild that returned r
storeChildRun(r) ==
    /\ childFiles' = r.cFiles
    /\ accountFiles' = r.aFiles
    /\ lastResult' = [Result(IF r.threw THEN "error" ELSE "ok")
                      EXCEPT !.clockSkewDetected =
                                 (~r.threw /\ r.result[1].clockSkewDetected),
                             !.accountErrors = r.accountErrors]
    /\ UNCHANGED parent

CalculateForChild(childName, now) ==
    storeChildRun(calculateForChild(childFiles, accountFiles, childName, now))

\* the loop over the children of calculateAll; nows[i] is the clock value
\* that the i-th calculateForChild reads; a child whose run threw is counted
\* and skipped
RECURSIVE calculateAllLoop(_, _, _, _, _)
childDone(children, nows, acc, r) ==
    calculateAllLoop(r.cFiles, r.aFiles, Tail(children), Tail(nows),
                     IF r.threw
                     THEN [acc EXCEPT !.errors = @ + 1,
                                      !.accountErrors = @ + r.accountErrors]
                     ELSE [acc EXCEPT !.results = @ \o r.result,
                                      !.accountErrors = @ + r.accountErrors])

calculateAllLoop(cFiles, aFiles, children, nows, acc) ==
    IF children = << >>
    THEN [cFiles |-> cFiles, aFiles |-> aFiles, results |-> acc.results,
          errors |-> acc.errors, accountErrors |-> acc.accountErrors]
    ELSE childDone(children, nows, acc,
                   calculateForChild(cFiles, aFiles, children[1].name, nows[1]))

\* the stores and the outcome after a calculateAll whose loop returned r
storeAllRun(r) ==
    /\ childFiles' = r.cFiles
    /\ accountFiles' = r.aFiles
    /\ lastResult' = [Result(IF r.errors = 0 THEN "ok" ELSE "error")
                      EXCEPT !.clockSkewDetected =
                                 \E i \in DOMAIN r.results : r.results[i].clockSkewDetected,
                             !.accountErrors = r.accountErrors]
    /\ UNCHANGED parent

CalculateAll(nows) ==
    /\ Len(nows) = Len(getAllChildren(parent, childFiles))
    /\ storeAllRun(calculateAllLoop(childFiles, accountFiles,
                                    getAllChildren(parent, childFiles), nows,
                                    [results |-> << >>, errors |-> 0, accountErrors |-> 0]))

\* the stores and the outcome after a calculateForAccount that appended
storeAccountRun(appended) ==
    /\ accountFiles' = appended.files
    /\ lastResult' = Result(IF appended.threw THEN "error" ELSE "ok")
    /\ UNCHANGED <<parent, childFiles>>

CalculateForAccount(childName, accountName, now) ==
    LET cname == buildChildFilename(childName)
        aname == buildAccountFilename(childName, accountName)
    IN  IF ~fileExists(childFiles, cname) \/ ~fileExists(accountFiles, aname)
        THEN /\ lastResult' = Result("error")
             /\ UNCHANGED <<parent, childFiles, accountFiles>>
        ELSE IF isClockSkew(now, childFiles[cname].cbts)
        THEN /\ lastResult' = [Result("ok") EXCEPT !.clockSkewDetected = TRUE]
             /\ UNCHANGED <<parent, childFiles, accountFiles>>
        ELSE storeAccountRun(
                 appendEntries(accountFiles, childName, accountFiles[aname].name,
                               calculate(accountFiles[aname], childFiles[cname].cbts,
                                         now).ledgerEntries))

\* ------------------------------------------------------------------------
\* Child service and repositories (services/ChildService.ts,
\* persistence/Repositories.ts)
\* ------------------------------------------------------------------------
CreateChild(name, now) ==
    IF ~isNameUnique(name, parent.children)
    THEN /\ lastResult' = Result("error")
         /\ UNCHANGED <<parent, childFiles, accountFiles>>
    ELSE /\ childFiles' = putFile(childFiles, buildChildFilename(name),
                                  [name |-> name, accounts |-> << >>, cb |-> 0, cbts |-> now])
         /\ parent' = [parent EXCEPT !.children = Append(@, toLowerCase(name))]
         /\ lastResult' = Result("ok")
         /\ UNCHANGED accountFiles

\* ChildRepository.removeAccount
removeAccount(cFiles, childName, accountName) ==
    LET filename == buildChildFilename(childName)
    IN  putFile(cFiles, filename,
                [cFiles[filename] EXCEPT !.accounts =
                    SelectSeq(@, LAMBDA a : normalizeName(a) # normalizeName(accountName))])

\* the loop of ChildRepository.delete over the accounts of the child
RECURSIVE deleteAccountsOf(_, _, _)
deleteAccountsOf(aFiles, childName, names) ==
    IF names = << >> THEN aFiles
    ELSE deleteAccountsOf(deleteFile(aFiles, buildAccountFilename(childName, names[1])),
                          childName, Tail(names))

DeleteChild(name) ==
    LET filename == buildChildFilename(name)
    IN  IF ~fileExists(childFiles, filename)
        THEN /\ lastResult' = Result("ok")
             /\ UNCHANGED <<parent, childFiles, accountFiles>>
        ELSE /\ accountFiles' = deleteAccountsOf(accountFiles, name,
                                                 childFiles[filename].accounts)
             /\ childFiles' = deleteFile(childFiles, filename)
             /\ parent' = [parent EXCEPT !.children =
                              SelectSeq(@, LAMBDA c : normalizeName(c) # normalizeName(name))]
             /\ lastResult' = Result("ok")

\* ------------------------------------------------------------------------
\* Account service (services/AccountService.ts)
\* ------------------------------------------------------------------------
NoAllowance == [enabled |-> FALSE, amount |-> Undefined, frequency |-> Undefined]

NoInterest ==
    [enabled |-> FALSE, type |-> Undefined, value |-> Undefined, frequency |-> Undefined]

Allowance(amount, frequency) ==
    [enabled |-> TRUE, amount |-> Some(amount), frequency |-> Some(frequency)]

Interest(type, value, frequency) ==
    [enabled |-> TRUE, type |-> Some(type), value |-> Some(value),
     frequency |-> Some(frequency)]

\* what the account form may submit (the name is chosen separately)
AccountInputs ==
    { [type |-> "Savings", goal |-> Undefined,
       allowance |-> Allowance(Dollars(10), "weekly"),
       interest |-> Interest("Percentage", Dollars(5), "weekly")],
      [type |-> "Goal", goal |-> Some([name |-> "New Bike", cost |-> Dollars(100)]),
       allowance |-> Allowance(Dollars(10), "weekly"),
       interest |-> NoInterest],
      [type |-> "Savings", goal |-> Undefined,
       allowance |-> [enabled |-> TRUE, amount |-> Undefined, frequency |-> Some("weekly")],
       interest |-> NoInterest] }

\* what updateConfiguration may be given: an allowance of $10.50 (it
\* validates nothing)
ConfigUpdates ==
    { [allowance |-> Some(Allowance(Dollars(10) + 50, "weekly")), interest |-> Undefined] }

\* the validation of createAccount passes
validAccountData(accountData) ==
    /\ accountData.type = "Goal" =>
          /\ Has(accountData.goal)
          /\ validatePositiveAmount(Val(accountData.goal).cost)
    /\ accountData.allowance.enabled =>
          /\ Has(accountData.allowance.amount)
          /\ Val(accountData.allowance.amount) # 0
          /\ Has(accountData.allowance.frequency)
          /\ validatePositiveAmount(Val(accountData.allowance.amount))
    /\ accountData.interest.enabled =>
          /\ Has(accountData.interest.type)
          /\ Has(accountData.interest.value)
          /\ Has(accountData.interest.frequency)
          /\ validatePositiveAmount(Val(accountData.interest.value))

CreateAccount(childName, accountName, accountData) ==
    LET cname == buildChildFilename(childName)
        account == [name |-> accountName,
                    type |-> accountData.type,
                    allowance |-> accountData.allowance,
                    interest |-> accountData.interest,
                    goal |-> IF Has(accountData.goal)
                             THEN Some([name |-> Val(accountData.goal).name,
                                        cost |-> Val(accountData.goal).cost,
                                        achieved |-> FALSE])
                             ELSE Undefined,
                    ledger |-> << >>]
    IN  IF \/ ~validAccountData(accountData)
           \/ ~fileExists(childFiles, cname)
           \/ ~isNameUnique(accountName, childFiles[cname].accounts)
        THEN /\ lastResult' = Result("error")
             /\ UNCHANGED <<parent, childFiles, accountFiles>>
        ELSE /\ accountFiles' = putFile(accountFiles,
                                        buildAccountFilename(childName, accountName), account)
             /\ childFiles' = putFile(childFiles, cname,
                                  [childFiles[cname] EXCEPT
                                      !.accounts = Append(@, toLowerCase(accountName))])
             /\ lastResult' = Result("ok")
             /\ UNCHANGED parent

DeleteAccount(childName, accountName, confirmIfAchieved) ==
    LET cname == buildChildFilename(childName)
        aname == buildAccountFilename(childName, accountName)
    IN  IF /\ fileExists(accountFiles, aname)
           /\ goalAchievedFlag(accountFiles[aname])
           /\ ~confirmIfAchieved
        THEN /\ lastResult' = Result("error")
             /\ UNCHANGED <<parent, childFiles, accountFiles>>
        ELSE /\ accountFiles' = deleteFile(accountFiles, aname)
             /\ IF fileExists(childFiles, cname)
                THEN /\ childFiles' = removeAccount(childFiles, childName, accountName)
                     /\ lastResult' = Result("ok")
                ELSE /\ lastResult' = Result("error")
                     /\ UNCHANGED childFiles
             /\ UNCHANGED parent

\* variant: the balance is not compared with the cost
MarkGoalAchieved_anyBalance(childName, accountName) ==
    LET aname == buildAccountFilename(childName, accountName)
    IN  IF \/ ~fileExists(accountFiles, aname)
           \/ accountFiles[aname].type # "Goal"
           \/ ~Has(accountFiles[aname].goal)
           \/ Val(accountFiles[aname].goal).achieved
        THEN /\ lastResult' = Result("error")
             /\ UNCHANGED <<parent, childFiles, accountFiles>>
        ELSE /\ accountFiles' = putFile(accountFiles, aname,
                                    [accountFiles[aname] EXCEPT !.goal[1].achieved = TRUE])
             /\ lastResult' = Result("ok")
             /\ UNCHANGED <<parent, childFiles>>

MarkGoalAchieved(childName, accountName) ==
    LET aname == buildAccountFilename(childName, accountName)
    IN  IF \/ ~fileExists(accountFiles, aname)
           \/ accountFiles[aname].type # "Goal"
           \/ ~Has(accountFiles[aname].goal)
           \/ Val(accountFiles[aname].goal).achieved
        THEN /\ lastResult' = Result("error")
             /\ UNCHANGED <<parent, childFiles, accountFiles>>
        ELSE IF calculateAccountBalance(accountFiles[aname]) < Val(accountFiles[aname].goal).cost
        THEN /\ lastResult' = Result("goalNotReached")
             /\ UNCHANGED <<parent, childFiles, accountFiles>>
        ELSE /\ accountFiles' = putFile(accountFiles, aname,
                                    [accountFiles[aname] EXCEPT !.goal[1].achieved = TRUE])
             /\ lastResult' = Result("ok")
             /\ UNCHANGED <<parent, childFiles>>

UpdateConfiguration(childName, accountName, updates) ==
    LET aname == buildAccountFilename(childName, accountName)
    IN  IF ~fileExists(accountFiles, aname)
        THEN /\ lastResult' = Result("error")
             /\ UNCHANGED <<parent, childFiles, accountFiles>>
        ELSE IF goalAchievedFlag(accountFiles[aname])
        THEN /\ lastResult' = Result("readOnly")
             /\ UNCHANGED <<parent, childFiles, accountFiles>>
        ELSE /\ accountFiles' = putFile(accountFiles, aname,
                                    [accountFiles[aname] EXCEPT
                                        !.allowance = IF Has(updates.allowance)
                                                      THEN Val(updates.allowance) ELSE @,
                                        !.interest = IF Has(updates.interest)
                                                     THEN Val(updates.interest) ELSE @])
             /\ lastResult' = Result("ok")
             /\ UNCHANGED <<parent, childFiles>>

\* ------------------------------------------------------------------------
\* Ledger service (services/LedgerService.ts)
\* ------------------------------------------------------------------------
\* a description typed by the user
UserText == [kind |-> "Text", value |-> 0, unit |-> "", ref |-> ""]

\* "Transfer to <name>" / "Transfer from <name>"
TransferText(direction, name) == [kind |-> direction, value |-> 0, unit |-> "", ref |-> name]

\* variant: deposit without the read-only check
deposit_noReadOnlyCheck(aFiles, childName, accountName, amount, description, now) ==
    LET aname == buildAccountFilename(childName, accountName)
    IN  IF ~validatePositiveAmount(amount) \/ ~fileExists(aFiles, aname)
        THEN [threw |-> TRUE, status |-> "error", files |-> aFiles]
        ELSE LET entry == [timestamp |-> now, type |-> "Deposit",
                           description |-> description, value |-> amount]
             IN  [threw |-> FALSE, status |-> "ok",
                  files |-> putFile(aFiles, aname,
                                [aFiles[aname] EXCEPT !.ledger = Append(@, entry)])]

\* LedgerService.deposit on a given account store
deposit(aFiles, childName, accountName, amount, description, now) ==
    LET aname == buildAccountFilename(childName, accountName)
    IN  IF ~validatePositiveAmount(amount) \/ ~fileExists(aFiles, aname)
        THEN [threw |-> TRUE, status |-> "error", files |-> aFiles]
        ELSE IF goalAchievedFlag(aFiles[aname])
        THEN [threw |-> TRUE, status |-> "readOnly", files |-> aFiles]
        ELSE IF aname \in unwritable
        THEN [threw |-> TRUE, status |-> "error", files |-> aFiles]
        ELSE LET entry == [timestamp |-> now, type |-> "Deposit",
                           description |-> description, value |-> amount]
             IN  [threw |-> FALSE, status |-> "ok",
                  files |-> putFile(aFiles, aname,
                                [aFiles[aname] EXCEPT !.ledger = Append(@, entry)])]

\* variant: a request equal to the balance is reported as capped
withdraw_cappedWhenEqual(aFiles, childName, accountName, requestedAmount, description, now) ==
    LET aname == buildAccountFilename(childName, accountName)
    IN  IF ~validatePositiveAmount(requestedAmount) \/ ~fileExists(aFiles, aname)
        THEN [threw |-> TRUE, status |-> "error", files |-> aFiles,
              actualAmount |-> 0, wasCapped |-> FALSE, cappedMessage |-> Undefined]
        ELSE IF goalAchievedFlag(aFiles[aname])
        THEN [threw |-> TRUE, status |-> "readOnly", files |-> aFiles,
              actualAmount |-> 0, wasCapped |-> FALSE, cappedMessage |-> Undefined]
        ELSE LET currentBalance == calculateAccountBalance(aFiles[aname])
                 actualAmount == Min(requestedAmount, currentBalance)
                 wasCapped == actualAmount <= requestedAmount
                 entry == [timestamp |-> now, type |-> "Withdraw",
                           description |-> description, value |-> -actualAmount]
             IN  [threw |-> FALSE, status |-> "ok",
                  files |-> putFile(aFiles, aname,
                                [aFiles[aname] EXCEPT !.ledger = Append(@, entry)]),
                  actualAmount |-> actualAmount,
                  wasCapped |-> wasCapped,
                  cappedMessage |-> IF wasCapped THEN Some(actualAmount) ELSE Undefined]

\* variant: the requested amount is withdrawn whatever the balance
withdraw_uncapped(aFiles, childName, accountName, requestedAmount, description, now) ==
    LET aname == buildAccountFilename(childName, accountName)
    IN  IF ~validatePositiveAmount(requestedAmount) \/ ~fileExists(aFiles, aname)
        THEN [threw |-> TRUE, status |-> "error", files |-> aFiles,
              actualAmount |-> 0, wasCapped |-> FALSE, cappedMessage |-> Undefined]
        ELSE IF goalAchievedFlag(aFiles[aname])
        THEN [threw |-> TRUE, status |-> "readOnly", files |-> aFiles,
              actualAmount |-> 0, wasCapped |-> FALSE, cappedMessage |-> Undefined]
        ELSE LET currentBalance == calculateAccountBalance(aFiles[aname])
                 actualAmount == requestedAmount
                 wasCapped == currentBalance < requestedAmount
                 entry == [timestamp |-> now, type |-> "Withdraw",
                           description |-> description, value |-> -actualAmount]
             IN  [threw |-> FALSE, status |-> "ok",
                  files |-> putFile(aFiles, aname,
                                [aFiles[aname] EXCEPT !.ledger = Append(@, entry)]),
                  actualAmount |-> actualAmount,
                  wasCapped |-> wasCapped,
                  cappedMessage |-> IF wasCapped THEN Some(actualAmount) ELSE Undefined]

\* LedgerService.withdraw on a given account store; the capped message
\* "Withdrawal amount adjusted to available balance ($n)" is modelled by n
withdraw(aFiles, childName, accountName, requestedAmount, description, now) ==
    LET aname == buildAccountFilename(childName, accountName)
    IN  IF ~validatePositiveAmount(requestedAmount) \/ ~fileExists(aFiles, aname)
        THEN [threw |-> TRUE, status |-> "error", files |-> aFiles,
              actualAmount |-> 0, wasCapped |-> FALSE, cappedMessage |-> Undefined]
        ELSE IF goalAchievedFlag(aFiles[aname])
        THEN [threw |-> TRUE, status |-> "readOnly", files |-> aFiles,
              actualAmount |-> 0, wasCapped |-> FALSE, cappedMessage |-> Undefined]
        ELSE IF aname \in unwritable
        THEN [threw |-> TRUE, status |-> "error", files |-> aFiles,
              actualAmount |-> 0, wasCapped |-> FALSE, cappedMessage |-> Undefined]
        ELSE LET currentBalance == calculateAccountBalance(aFiles[aname])
                 actualAmount == Min(requestedAmount, currentBalance)
                 wasCapped == actualAmount < requestedAmount
                 entry == [timestamp |-> now, type |-> "Withdraw",
                           description |-> description, value |-> -actualAmount]
             IN  [threw |-> FALSE, status |-> "ok",
                  files |-> putFile(aFiles, aname,
                                [aFiles[aname] EXCEPT !.ledger = Append(@, entry)]),
                  actualAmount |-> actualAmount,
                  wasCapped |-> wasCapped,
                  cappedMessage |-> IF wasCapped THEN Some(actualAmount) ELSE Undefined]

Deposit(childName, accountName, amount, now) ==
    LET r == deposit(accountFiles, childName, accountName, amount, UserText, now)
    IN  /\ accountFiles' = r.files
        /\ lastResult' = Result(r.status)
        /\ UNCHANGED <<parent, childFiles>>

Withdraw(childName, accountName, requestedAmount, now) ==
    LET r == withdraw(accountFiles, childName, accountName, requestedAmount, UserText, now)
    IN  /\ accountFiles' = r.files
        /\ lastResult' = [Result(r.status) EXCEPT !.wasCapped = r.wasCapped]
        /\ UNCHANGED <<parent, childFiles>>

\* ------------------------------------------------------------------------
\* Transfer service (services/TransferService.ts)
\* ------------------------------------------------------------------------
\* variant: the requested amount is deposited, capped or not
transfer_depositRequested(aFiles, childName, fromAccountName, toAccountName, requestedAmount, now1, now2) ==
    LET fname == buildAccountFilename(childName, fromAccountName)
        tname == buildAccountFilename(childName, toAccountName)
    IN  IF \/ ~validatePositiveAmount(requestedAmount)
           \/ ~fileExists(aFiles, fname)
           \/ ~fileExists(aFiles, tname)
           \/ toLowerCase(fromAccountName) = toLowerCase(toAccountName)
        THEN [threw |-> TRUE, status |-> "error", files |-> aFiles,
              actualAmount |-> 0, wasCapped |-> FALSE]
        ELSE IF goalAchievedFlag(aFiles[fname]) \/ goalAchievedFlag(aFiles[tname])
        THEN [threw |-> TRUE, status |-> "readOnly", files |-> aFiles,
              actualAmount |-> 0, wasCapped |-> FALSE]
        ELSE IF calculateAccountBalance(aFiles[fname]) = 0
        THEN [threw |-> TRUE, status |-> "error", files |-> aFiles,
              actualAmount |-> 0, wasCapped |-> FALSE]
        ELSE LET fromAccount == aFiles[fname]
                 toAccount == aFiles[tname]
                 availableBalance == calculateAccountBalance(fromAccount)
                 actualAmount == Min(requestedAmount, availableBalance)
                 w == withdraw(aFiles, childName, fromAccountName, actualAmount,
                               TransferText("TransferTo", toAccount.name), now1)
                 d == IF w.threw THEN [threw |-> TRUE, status |-> w.status, files |-> w.files]
                      ELSE deposit(w.files, childName, toAccountName, requestedAmount,
                                   TransferText("TransferFrom", fromAccount.name), now2)
             IN  [threw |-> d.threw, status |-> d.status, files |-> d.files,
                  actualAmount |-> actualAmount,
                  wasCapped |-> ~d.threw /\ actualAmount < requestedAmount]

\* TransferService.transfer on a given account store; now1 and now2 are the
\* clock values read by the withdraw and by the deposit
transfer(aFiles, childName, fromAccountName, toAccountName, requestedAmount, now1, now2) ==
    LET fname == buildAccountFilename(childName, fromAccountName)
        tname == buildAccountFilename(childName, toAccountName)
    IN  IF \/ ~validatePositiveAmount(requestedAmount)
           \/ ~fileExists(aFiles, fname)
           \/ ~fileExists(aFiles, tname)
           \/ toLowerCase(fromAccountName) = toLowerCase(toAccountName)
        THEN [threw |-> TRUE, status |-> "error", files |-> aFiles,
              actualAmount |-> 0, wasCapped |-> FALSE]
        ELSE IF goalAchievedFlag(aFiles[fname]) \/ goalAchievedFlag(aFiles[tname])
        THEN [threw |-> TRUE, status |-> "readOnly", files |-> aFiles,
              actualAmount |-> 0, wasCapped |-> FALSE]
        ELSE IF calculateAccountBalance(aFiles[fname]) = 0
        THEN [threw |-> TRUE, status |-> "error", files |-> aFiles,
              actualAmount |-> 0, wasCapped |-> FALSE]
        ELSE LET fromAccount == aFiles[fname]
                 toAccount == aFiles[tname]
                 availableBalance == calculateAccountBalance(fromAccount)
                 actualAmount == Min(requestedAmount, availableBalance)
                 w == withdraw(aFiles, childName, fromAccountName, actualAmount,
                               TransferText("TransferTo", toAccount.name), now1)
                 d == IF w.threw THEN [threw |-> TRUE, status |-> w.status, files |-> w.files]
                      ELSE deposit(w.files, childName, toAccountName, actualAmount,
                                   TransferText("TransferFrom", fromAccount.name), now2)
             IN  [threw |-> d.threw, status |-> d.status, files |-> d.files,
                  actualAmount |-> actualAmount,
                  wasCapped |-> ~d.threw /\ actualAmount < requestedAmount]

Transfer(childName, fromAccountName, toAccountName, requestedAmount, now1, now2) ==
    LET r == transfer(accountFiles, childName, fromAccountName, toAccountName,
                      requestedAmount, now1, now2)
    IN  /\ accountFiles' = r.files
        /\ lastResult' = [Result(r.status) EXCEPT !.wasCapped = r.wasCapped]
        /\ UNCHANGED <<parent, childFiles>>

\* ------------------------------------------------------------------------
\* Specification: the service calls in any serial order, the device clock
\* returning any value of NowValues at each reading
\* ------------------------------------------------------------------------
NowSeqs == UNION {[1..n -> NowValues] : n \in 0..Cardinality(ChildNames)}

\* one service call, counted
Call(A) == ops < MaxOps /\ A /\ ops' = ops + 1 /\ UNCHANGED <<clock, probe, unwritable, backupFiles, tasks>>

Next ==
    \/ \E c \in ChildNames, now \in NowValues : Call(CreateChild(c, now))
    \/ \E c \in ChildNames : Call(DeleteChild(c))
    \/ \E c \in ChildNames, a \in AccountNames, d \in AccountInputs :
          Call(CreateAccount(c, a, d))
    \/ \E c \in ChildNames, a \in AccountNames, confirm \in BOOLEAN :
          Call(DeleteAccount(c, a, confirm))
    \/ \E c \in ChildNames, a \in AccountNames : Call(MarkGoalAchieved(c, a))
    \/ \E c \in ChildNames, a \in AccountNames, u \in ConfigUpdates :
          Call(UpdateConfiguration(c, a, u))
    \/ \E c \in ChildNames, a \in AccountNames, x \in DepositAmounts, now \in NowValues :
          Call(Deposit(c, a, x, now))
    \/ \E c \in ChildNames, a \in AccountNames, x \in WithdrawAmounts, now \in NowValues :
          Call(Withdraw(c, a, x, now))
    \/ \E c \in ChildNames, a, b \in AccountNames, x \in WithdrawAmounts,
          now1, now2 \in NowValues :
          Call(Transfer(c, a, b, x, now1, now2))
    \/ \E nows \in NowSeqs : Call(CalculateAll(nows))
    \/ \E c \in ChildNames, now \in NowValues : Call(CalculateForChild(c, now))
    \/ \E c \in ChildNames, a \in AccountNames, now \in NowValues :
          Call(CalculateForAccount(c, a, now))

Spec == Init /\ [][Next]_vars

\* ------------------------------------------------------------------------
\* Specifications of the calculation runs alone, under a steady clock: a
\* child created at RunsStart with one Savings account that holds a deposit
\* of $100 made at RunsStart
\* ------------------------------------------------------------------------
RunsStart == At(30, 12)

\* noon of 31 January and of the fifteen days after it
RunTimes == {At(d, 12) : d \in 30..45}

RunsAccount ==
    [name |-> "Savings", type |-> "Savings",
     allowance |-> Allowance(Dollars(10), "weekly"),
     interest |-> Interest("Percentage", Dollars(5), "weekly"),
     goal |-> Undefined,
     ledger |-> <<[timestamp |-> RunsStart, type |-> "Deposit",
                   description |-> UserText, value |-> Dollars(100)]>>]

RunsInit ==
    /\ parent = [name |-> "Alex", children |-> <<"emma">>]
    /\ childFiles = putFile(<< >>, buildChildFilename("Emma"),
                            [name |-> "Emma", accounts |-> <<"savings">>,
                             cb |-> 0, cbts |-> RunsStart])
    /\ accountFiles = putFile(<< >>, buildAccountFilename("Emma", "Savings"), RunsAccount)
    /\ lastResult = NoResult
    /\ ops = 0
    /\ clock = RunsStart
    /\ probe = NoProbe
    /\ unwritable = {}
    /\ backupFiles = {}
    /\ tasks = << >>

\* one service call that reads the steady clock once
Tick(now, A) ==
    /\ now >= clock /\ ops < MaxOps /\ A /\ ops' = ops + 1 /\ clock' = now
    /\ UNCHANGED <<probe, unwritable, backupFiles, tasks>>

\* calculateForChild and calculateAll
RunsNext ==
    \/ \E now \in RunTimes : Tick(now, CalculateForChild("Emma", now))
    \/ \E now \in RunTimes : Tick(now, CalculateAll(<<now>>))

RunsSpec == RunsInit /\ [][RunsNext]_vars

\* calculateForChild, calculateAll and calculateForAccount
CalcNext ==
    \/ \E now \in RunTimes : Tick(now, CalculateForChild("Emma", now))
    \/ \E now \in RunTimes : Tick(now, CalculateAll(<<now>>))
    \/ \E now \in RunTimes : Tick(now, CalculateForAccount("Emma", "Savings", now))

CalcSpec == RunsInit /\ [][CalcNext]_vars

\* ------------------------------------------------------------------------
\* Specification of the ledger operations: deposits, withdrawals, transfers
\* and calculation runs on the two accounts of one child, Savings holding a
\* deposit of $100 and the goal account Bike holding nothing, under a
\* steady clock
\* ------------------------------------------------------------------------
\* most calls in a run of the specification of the ledger operations
MaxLedgerOps == 3

LedgerTimes == {RunsStart, At(38, 12)}

BikeAccount ==
    [name |-> "Bike", type |-> "Goal",
     allowance |-> Allowance(Dollars(10), "weekly"),
     interest |-> NoInterest,
     goal |-> Some([name |-> "New Bike", cost |-> Dollars(100), achieved |-> FALSE]),
     ledger |-> << >>]

LedgerInit ==
    /\ parent = [name |-> "Alex", children |-> <<"emma">>]
    /\ childFiles = putFile(<< >>, buildChildFilename("Emma"),
                            [name |-> "Emma", accounts |-> <<"savings", "bike">>,
                             cb |-> 0, cbts |-> RunsStart])
    /\ accountFiles = putFile(putFile(<< >>, buildAccountFilename("Emma", "Savings"),
                                      RunsAccount),
                              buildAccountFilename("Emma", "Bike"), BikeAccount)
    /\ lastResult = NoResult
    /\ ops = 0
    /\ clock = RunsStart
    /\ probe = NoProbe
    /\ unwritable = {}
    /\ backupFiles = {}
    /\ tasks = << >>

LedgerNext ==
    \/ \E a \in AccountNames, x \in DepositAmounts, now \in LedgerTimes :
          ops < MaxLedgerOps /\ Tick(now, Deposit("Emma", a, x, now))
    \/ \E a \in AccountNames, x \in LedgerAmounts, now \in LedgerTimes :
          ops < MaxLedgerOps /\ Tick(now, Withdraw("Emma", a, x, now))
    \/ \E a, b \in AccountNames, x \in LedgerAmounts, now \in LedgerTimes :
          ops < MaxLedgerOps /\ Tick(now, Transfer("Emma", a, b, x, now, now))
    \/ \E now \in LedgerTimes :
          ops < MaxLedgerOps /\ Tick(now, CalculateForChild("Emma", now))

LedgerSpec == LedgerInit /\ [][LedgerNext]_vars

\* ------------------------------------------------------------------------
\* Specification of the failing store: calculation runs, under a steady
\* clock, on two children whose accounts have a weekly allowance, while the
\* store fails to write one file (or none)
\* ------------------------------------------------------------------------
\* most runs in a behaviour of the specification of the failing store
MaxFailOps == 2

\* noon of 7, 8 and 15 February
FailTimes == {At(37, 12), At(38, 12), At(45, 12)}

AllowanceAccount(name) ==
    [name |-> name, type |-> "Savings",
     allowance |-> Allowance(Dollars(10), "weekly"),
     interest |-> NoInterest,
     goal |-> Undefined,
     ledger |-> << >>]

FailChildFiles ==
    putFile(putFile(<< >>, buildChildFilename("Emma"),
                    [name |-> "Emma", accounts |-> <<"savings", "bike">>,
                     cb |-> 0, cbts |-> RunsStart]),
            buildChildFilename("Noah"),
            [name |-> "Noah", accounts |-> <<"savings">>, cb |-> 0, cbts |-> RunsStart])

FailAccountFiles ==
    putFile(putFile(putFile(<< >>, buildAccountFilename("Emma", "Savings"),
                            AllowanceAccount("Savings")),
                    buildAccountFilename("Emma", "Bike"), AllowanceAccount("Bike")),
            buildAccountFilename("Noah", "Savings"), AllowanceAccount("Savings"))

FailInit ==
    /\ parent = [name |-> "Alex", children |-> <<"emma", "noah">>]
    /\ childFiles = FailChildFiles
    /\ accountFiles = FailAccountFiles
    /\ lastResult = NoResult
    /\ ops = 0
    /\ clock = RunsStart
    /\ probe = NoProbe
    /\ \E f \in DOMAIN FailAccountFiles \cup DOMAIN FailChildFiles :
          unwritable \in {{}, {f}}
    /\ backupFiles = {}
    /\ tasks = << >>

FailNext ==
    \/ \E c \in ChildNames, now \in FailTimes :
          ops < MaxFailOps /\ Tick(now, CalculateForChild(c, now))
    \/ \E now1, now2 \in FailTimes :
          /\ ops < MaxFailOps
          /\ now1 <= now2 /\ clock <= now1
          /\ Tick(now2, CalculateAll(<<now1, now2>>))
    \/ \E a, b \in AccountNames, x \in LedgerAmounts, now \in FailTimes :
          ops < MaxFailOps /\ Tick(now, Transfer("Emma", a, b, x, now, now))
    \* the store writes every file again
    \/ /\ unwritable # {}
       /\ unwritable' = {}
       /\ UNCHANGED <<parent, childFiles, accountFiles, lastResult, ops, clock, probe,
                      backupFiles, tasks>>

FailSpec == FailInit /\ [][FailNext]_vars

\* ------------------------------------------------------------------------
\* Specification of the deletions: deposits and calculation runs overwrite
\* the files of one child and its two accounts, so that the store keeps
\* backups of them, and accounts and children are deleted
\* ------------------------------------------------------------------------
\* most calls in a behaviour of the specification of the deletions
MaxCascadeOps == 3

\* LocalFileStore.getBackupFilename
getBackupFilename(filename) == filename \o ".bak"

\* variant: deleteFile leaves the backup of the file
backedUp_keepDeleted(backups, files, written) ==
    backups \cup {getBackupFilename(f) :
                     f \in {g \in DOMAIN files \cap DOMAIN written : written[g] # files[g]}}

\* the backup keys after the calls of one service call on one family of
\* files: putFile copies a file that exists to its backup key before it
\* overwrites it, and deleteFile deletes the backup key with the file
\* (a file is taken as overwritten when its content has changed)
backedUp(backups, files, written) ==
    (backups \ {getBackupFilename(f) : f \in DOMAIN files \ DOMAIN written})
    \cup {getBackupFilename(f) :
             f \in {g \in DOMAIN files \cap DOMAIN written : written[g] # files[g]}}

\* Step is one service call on the store and its backups, under a steady
\* clock
CascadeNext ==
    LET Step(now, A) ==
            /\ now >= clock /\ ops < MaxCascadeOps /\ A /\ ops' = ops + 1 /\ clock' = now
            /\ backupFiles' = backedUp(backedUp(backupFiles, childFiles, childFiles'),
                                       accountFiles, accountFiles')
            /\ UNCHANGED <<probe, unwritable, tasks>>
    IN  \/ \E a \in AccountNames, x \in DepositAmounts, now \in LedgerTimes :
              Step(now, Deposit("Emma", a, x, now))
        \/ \E now \in LedgerTimes : Step(now, CalculateForChild("Emma", now))
        \/ \E c \in ChildNames, a \in AccountNames, confirm \in BOOLEAN :
              Step(clock, DeleteAccount(c, a, confirm))
        \/ \E c \in ChildNames : Step(clock, DeleteChild(c))

CascadeSpec == LedgerInit /\ [][CascadeNext]_vars

\* ------------------------------------------------------------------------
\* Specification of the interleaved calls: one calculateForChild and one
\* deposit are in flight at a time and give way at their reads and writes
\* of the store, and deleteAccount runs between their steps; the child and
\* its accounts are those of the specification of the ledger operations
\* ------------------------------------------------------------------------
\* most steps in a behaviour of the specification of the interleaved calls
MaxRaceOps == 6

\* calculateForChild from its call to the loop over the accounts: the child
\* and the clock are read, then the accounts
RunStart(childName, now) ==
    LET filename == buildChildFilename(childName)
    IN  /\ "run" \notin DOMAIN tasks
        /\ IF ~fileExists(childFiles, filename)
           THEN /\ lastResult' = Result("error")
                /\ UNCHANGED tasks
           ELSE IF isClockSkew(now, childFiles[filename].cbts)
           THEN /\ lastResult' = [Result("ok") EXCEPT !.clockSkewDetected = TRUE]
                /\ UNCHANGED tasks
           ELSE /\ tasks' = tasks @@
                      ("run" :> [pc |-> "calculate", childName |-> childName,
                                 cbts |-> childFiles[filename].cbts, now |-> now,
                                 accounts |-> getAllForChild(childFiles, accountFiles,
                                                             childName),
                                 account |-> Undefined, entries |-> << >>,
                                 accountErrors |-> 0])
                /\ UNCHANGED lastResult
        /\ UNCHANGED <<parent, childFiles, accountFiles>>

\* one iteration of the loop up to the save of appendEntries: the accruals
\* of the account that was read at the start are calculated, and
\* appendEntries reads the account again
RunCalculate ==
    /\ "run" \in DOMAIN tasks
    /\ tasks["run"].pc = "calculate"
    /\ tasks["run"].accounts # << >>
    /\ LET run == tasks["run"]
           result == calculate(run.accounts[1], run.cbts, run.now)
           filename == buildAccountFilename(run.childName, run.accounts[1].name)
       IN  tasks' = [tasks EXCEPT !["run"] =
                        IF result.ledgerEntries = << >>
                        THEN [run EXCEPT !.accounts = Tail(@)]
                        ELSE IF ~fileExists(accountFiles, filename)
                        THEN [run EXCEPT !.accounts = Tail(@), !.accountErrors = @ + 1]
                        ELSE [run EXCEPT !.pc = "save",
                                         !.account = Some(accountFiles[filename]),
                                         !.entries = result.ledgerEntries]]
    /\ UNCHANGED <<parent, childFiles, accountFiles, lastResult>>

\* the save of appendEntries: the account that it read is stored with the
\* entries pushed and the ledger sorted
RunSave ==
    /\ "run" \in DOMAIN tasks
    /\ tasks["run"].pc = "save"
    /\ LET run == tasks["run"]
           account == Val(run.account)
           filename == buildAccountFilename(run.childName, account.name)
       IN  IF filename \in unwritable
           THEN /\ tasks' = [tasks EXCEPT !["run"] =
                                [run EXCEPT !.pc = "calculate", !.accounts = Tail(@),
                                            !.account = Undefined, !.entries = << >>,
                                            !.accountErrors = @ + 1]]
                /\ UNCHANGED accountFiles
           ELSE /\ accountFiles' =
                      putFile(accountFiles, filename,
                              [account EXCEPT !.ledger =
                                  sortByTimestamp(account.ledger \o run.entries)])
                /\ tasks' = [tasks EXCEPT !["run"] =
                                [run EXCEPT !.pc = "calculate", !.accounts = Tail(@),
                                            !.account = Undefined, !.entries = << >>]]
    /\ UNCHANGED <<parent, childFiles, lastResult>>

\* the end of calculateForChild: the accounts are read again and
\* updateBalance stores the total and the clock value in the child
RunFinish ==
    /\ "run" \in DOMAIN tasks
    /\ tasks["run"].pc = "calculate"
    /\ tasks["run"].accounts = << >>
    /\ LET run == tasks["run"]
           filename == buildChildFilename(run.childName)
       IN  IF ~fileExists(childFiles, filename) \/ filename \in unwritable
           THEN /\ lastResult' = [Result("error") EXCEPT
                                     !.accountErrors = run.accountErrors]
                /\ UNCHANGED childFiles
           ELSE /\ childFiles' =
                      updateBalance(childFiles, run.childName,
                                    calculateChildTotalBalance(
                                        getAllForChild(childFiles, accountFiles,
                                                       run.childName)),
                                    run.now)
                /\ lastResult' = [Result("ok") EXCEPT !.accountErrors = run.accountErrors]
    /\ tasks' = [t \in DOMAIN tasks \ {"run"} |-> tasks[t]]
    /\ UNCHANGED <<parent, accountFiles>>

\* LedgerService.deposit up to its save: the account is read and the entry
\* is pushed on the ledger that was read
DepositRead(childName, accountName, amount, now) ==
    LET aname == buildAccountFilename(childName, accountName)
    IN  /\ "deposit" \notin DOMAIN tasks
        /\ IF ~validatePositiveAmount(amount) \/ ~fileExists(accountFiles, aname)
           THEN /\ lastResult' = Result("error")
                /\ UNCHANGED tasks
           ELSE IF goalAchievedFlag(accountFiles[aname])
           THEN /\ lastResult' = Result("readOnly")
                /\ UNCHANGED tasks
           ELSE /\ tasks' = tasks @@
                      ("deposit" :>
                          [childName |-> childName,
                           account |-> [accountFiles[aname] EXCEPT !.ledger =
                                           Append(@, [timestamp |-> now, type |-> "Deposit",
                                                      description |-> UserText,
                                                      value |-> amount])]])
                /\ UNCHANGED lastResult
        /\ UNCHANGED <<parent, childFiles, accountFiles>>

\* the save of LedgerService.deposit
DepositSave ==
    /\ "deposit" \in DOMAIN tasks
    /\ LET call == tasks["deposit"]
           filename == buildAccountFilename(call.childName, call.account.name)
       IN  IF filename \in unwritable
           THEN /\ lastResult' = Result("error")
                /\ UNCHANGED accountFiles
           ELSE /\ accountFiles' = putFile(accountFiles, filename, call.account)
                /\ lastResult' = Result("ok")
    /\ tasks' = [t \in DOMAIN tasks \ {"deposit"} |-> tasks[t]]
    /\ UNCHANGED <<parent, childFiles>>

RaceNext ==
    LET Step(now, A) ==
            /\ now >= clock /\ ops < MaxRaceOps /\ A /\ ops' = ops + 1 /\ clock' = now
            /\ UNCHANGED <<probe, unwritable, backupFiles>>
    IN  \/ \E now \in LedgerTimes : Step(now, RunStart("Emma", now))
        \/ Step(clock, RunCalculate)
        \/ Step(clock, RunSave)
        \/ Step(clock, RunFinish)
        \/ \E a \in AccountNames, x \in DepositAmounts, now \in LedgerTimes :
              Step(now, DepositRead("Emma", a, x, now))
        \/ Step(clock, DepositSave)
        \/ \E a \in AccountNames :
              Step(clock, DeleteAccount("Emma", a, TRUE) /\ UNCHANGED tasks)

RaceSpec == LedgerInit /\ [][RaceNext]_vars

\* ------------------------------------------------------------------------
\* Specification of the triggering layer (state/AppContext.tsx): the
\* provider is mounted, runBalanceCalculation is invoked (by the effect of
\* the mount and by the handlers that follow an action), the provider is
\* rendered again when its state has changed, and calculateAll completes.
\* The task "app" holds isCalculating, the state of the provider; rendered,
\* the value of isCalculating in the render that is committed, which is the
\* value that the runBalanceCalculation of that render tests; and running,
\* how many calls of calculateAll have not completed
\* ------------------------------------------------------------------------
\* most steps in a behaviour of the specification of the triggering layer
MaxAppOps == 5

\* the first render of the provider: useState(false)
AppProvider ==
    /\ "app" \notin DOMAIN tasks
    /\ tasks' = ("app" :> [isCalculating |-> FALSE, rendered |-> FALSE, running |-> 0])
    /\ UNCHANGED <<parent, childFiles, accountFiles, lastResult>>

\* a render of the provider after setIsCalculating has changed its state
Render ==
    /\ "app" \in DOMAIN tasks
    /\ tasks["app"].rendered # tasks["app"].isCalculating
    /\ tasks' = [tasks EXCEPT !["app"].rendered = tasks["app"].isCalculating]
    /\ UNCHANGED <<parent, childFiles, accountFiles, lastResult>>

\* runBalanceCalculation of the committed render, up to its await: it
\* returns when its isCalculating is true, else it calls
\* setIsCalculating(true) and calculateAll
RunBalanceCalculation ==
    /\ "app" \in DOMAIN tasks
    /\ tasks' = IF tasks["app"].rendered THEN tasks
                ELSE [tasks EXCEPT !["app"].isCalculating = TRUE,
                                   !["app"].running = @ + 1]
    /\ UNCHANGED <<parent, childFiles, accountFiles, lastResult>>

\* a calculateAll that was called completes, having read the clock value
\* now, and runBalanceCalculation resumes: setIsCalculating(false)
Resumed(now) ==
    /\ "app" \in DOMAIN tasks
    /\ tasks["app"].running > 0
    /\ CalculateAll(<<now>>)
    /\ tasks' = [tasks EXCEPT !["app"].isCalculating = FALSE,
                              !["app"].running = @ - 1]

AppNext ==
    LET Step(now, A) ==
            /\ now >= clock /\ ops < MaxAppOps /\ A /\ ops' = ops + 1 /\ clock' = now
            /\ UNCHANGED <<probe, unwritable, backupFiles>>
    IN  \/ Step(clock, AppProvider)
        \/ Step(clock, Render)
        \/ Step(clock, RunBalanceCalculation)
        \/ \E now \in RunTimes : Step(now, Resumed(now))

AppSpec == RunsInit /\ [][AppNext]_vars

\* ------------------------------------------------------------------------
\* Specification of the storage keys: children and accounts whose names
\* hold a hyphen are created, credited and deleted, from the empty store
\* ------------------------------------------------------------------------
\* most service calls in a behaviour of the specification of the storage keys
MaxKeyOps == 4

\* names that validateName accepts
KeyChildNames == {"mary", "mary-ann"}

KeyAccountNames == {"fund", "ann-fund"}

KeyNext ==
    \/ \E c \in KeyChildNames, now \in NowValues :
          ops < MaxKeyOps /\ Call(CreateChild(c, now))
    \/ \E c \in KeyChildNames, a \in KeyAccountNames, d \in AccountInputs :
          ops < MaxKeyOps /\ Call(CreateAccount(c, a, d))
    \/ \E c \in KeyChildNames, a \in KeyAccountNames, x \in DepositAmounts, now \in NowValues :
          ops < MaxKeyOps /\ Call(Deposit(c, a, x, now))
    \/ \E c \in KeyChildNames, a \in KeyAccountNames :
          ops < MaxKeyOps /\ Call(DeleteAccount(c, a, TRUE))

KeySpec == Init /\ [][KeyNext]_vars

\* ------------------------------------------------------------------------
\* Specification of the schedule functions: generateAccrualDates and
\* addMonths are called, once in a behaviour, on a last accrual instant
\* drawn from ScheduleStarts
\* ------------------------------------------------------------------------
\* most days between the last accrual instant and the current instant
MaxSpanDays == 62

\* most months added by one call of addMonths
MaxMonths == 13

Frequencies == {"weekly", "bi-weekly", "monthly"}

\* noon of 15, 29, 30 and 31 January and of 29 February BaseYear, and
\* 02:30 of the day before the clocks go forward
ScheduleStarts == {At(14, 12), At(28, 12), At(29, 12), At(30, 12), At(59, 12),
                   At(DstStartDay - 1, 2) + 30 * 60}

ScheduleInit ==
    /\ parent = [name |-> "Alex", children |-> << >>]
    /\ childFiles = << >>
    /\ accountFiles = << >>
    /\ lastResult = NoResult
    /\ ops = 0
    /\ clock \in ScheduleStarts
    /\ probe = NoProbe
    /\ unwritable = {}
    /\ backupFiles = {}
    /\ tasks = << >>

\* generateAccrualDates(clock, currentTimestamp, frequency) is called
\* (calculatePeriodsBetween within it)
GenerateAccrualDates(currentTimestamp, frequency) ==
    /\ probe = NoProbe
    /\ probe' = [fn |-> "generateAccrualDates",
                 lastAccrualTimestamp |-> clock,
                 currentTimestamp |-> currentTimestamp,
                 frequency |-> frequency,
                 periods |-> calculatePeriodsBetween(clock, currentTimestamp, frequency),
                 accrualDates |-> generateAccrualDates(clock, currentTimestamp, frequency)]
    /\ UNCHANGED <<parent, childFiles, accountFiles, lastResult, ops, clock, unwritable,
                   backupFiles, tasks>>

\* addMonths(clock, months) is called
AddMonths(months) ==
    /\ probe = NoProbe
    /\ probe' = [fn |-> "addMonths", date |-> clock, months |-> months,
                 result |-> addMonths(clock, months)]
    /\ UNCHANGED <<parent, childFiles, accountFiles, lastResult, ops, clock, unwritable,
                   backupFiles, tasks>>

ScheduleNext ==
    \/ \E span \in 0..MaxSpanDays, h \in {0, 12}, f \in Frequencies :
          GenerateAccrualDates(startOfDay(clock) + At(span, h), f)
    \/ \E n \in 1..MaxMonths : AddMonths(n)

ScheduleSpec == ScheduleInit /\ [][ScheduleNext]_vars

\* ------------------------------------------------------------------------
\* Properties
\* ------------------------------------------------------------------------
\* the instants at which the calculator is probed: the clock values and one
\* week after the last
CalcInstants == NowValues \cup {At(45, 12)}

\* the stored flag goal.achieved
storedAchieved(account) == Has(account.goal) /\ account.goal[1].achieved

\* the stored balance of an account: the sum of its ledger, floored at zero
storedBalance(account) == Max(0, SumValues(account.ledger))

\* the sum of the stored balances of the accounts that are not achieved
RECURSIVE OpenBalance(_)
OpenBalance(accounts) ==
    IF accounts = << >> THEN 0
    ELSE (IF storedAchieved(accounts[1]) THEN 0 ELSE storedBalance(accounts[1]))
         + OpenBalance(Tail(accounts))

\* the same with each balance taken as of the instant t
RECURSIVE OpenBalanceAsOf(_, _)
OpenBalanceAsOf(accounts, t) ==
    IF accounts = << >> THEN 0
    ELSE (IF storedAchieved(accounts[1]) THEN 0
          ELSE Max(0, SumValues(SelectSeq(accounts[1].ledger,
                                          LAMBDA e : e.timestamp <= t))))
         + OpenBalanceAsOf(Tail(accounts), t)

\* how many entries of a ledger are accruals of one kind
CountKind(ledger, kind) ==
    Cardinality({i \in DOMAIN ledger : ledger[i].description.kind = kind})

C2_SameInstantIdempotent ==
    \A c \in ChildNames :
        fileExists(childFiles, buildChildFilename(c)) =>
            LET t == childFiles[buildChildFilename(c)].cbts
                accounts == getAllForChild(childFiles, accountFiles, c)
                again == calculateForChild(childFiles, accountFiles, c, t)
            IN  /\ \A i \in DOMAIN accounts :
                      /\ calculate(accounts[i], t, t).accruals = << >>
                      /\ calculate(accounts[i], t, t).ledgerEntries = << >>
                /\ again.aFiles = accountFiles
                /\ again.result[1].totalAccruals = 0

\* a run at the later clock value has posted an allowance and set cbts
C2_Witness ==
    \E c \in ChildNames :
        /\ fileExists(childFiles, buildChildFilename(c))
        /\ childFiles[buildChildFilename(c)].cbts = At(38, 12)
        /\ \E i \in DOMAIN getAllForChild(childFiles, accountFiles, c) :
              CountKind(getAllForChild(childFiles, accountFiles, c)[i].ledger,
                        "Allowance") = 1

\* C3: after runs at a steady clock from RunsStart, each enabled schedule
\* has as many accrual entries in the ledger as whole periods have elapsed
\* between RunsStart and cbts.
C3_OneEntryPerElapsedPeriod ==
    \A c \in ChildNames, a \in AccountNames :
        (/\ fileExists(childFiles, buildChildFilename(c))
         /\ fileExists(accountFiles, buildAccountFilename(c, a))) =>
            LET cbts == childFiles[buildChildFilename(c)].cbts
                account == accountFiles[buildAccountFilename(c, a)]
            IN  /\ (~storedAchieved(account) /\ account.allowance.enabled) =>
                      CountKind(account.ledger, "Allowance") =
                          calculatePeriodsBetween(RunsStart, cbts,
                                                  Val(account.allowance.frequency))
                /\ (~storedAchieved(account) /\ account.interest.enabled) =>
                      CountKind(account.ledger, "Interest") =
                          calculatePeriodsBetween(RunsStart, cbts,
                                                  Val(account.interest.frequency))

\* C4: no ledger holds two allowance accruals, or two interest accruals, of
\* the same due instant.
C4_NoDuplicateAccruals ==
    \A f \in DOMAIN accountFiles :
        LET ledger == accountFiles[f].ledger
        IN  \A i, j \in DOMAIN ledger :
                (/\ i < j
                 /\ ledger[i].description.kind \in {"Allowance", "Interest"}
                 /\ ledger[i].description.kind = ledger[j].description.kind)
                => ledger[i].timestamp # ledger[j].timestamp

\* C5: when the clock value is less than cbts, the calculator yields no
\* accrual and returns the balance and the timestamp it was given, and a
\* calculateForChild step changes no ledger and no child file and reports
\* clockSkewDetected.
C5_ClockSkewFreeze ==
    [][\A c \in ChildNames, now \in NowValues :
          LET filename == buildChildFilename(c)
              cbts == childFiles[filename].cbts
              accounts == getAllForChild(childFiles, accountFiles, c)
          IN  (fileExists(childFiles, filename) /\ now < cbts) =>
                  /\ \A i \in DOMAIN accounts :
                        LET r == calculate(accounts[i], cbts, now)
                        IN  /\ r.accruals = << >>
                            /\ r.ledgerEntries = << >>
                            /\ r.newTimestamp = cbts
                            /\ r.newBalance = storedBalance(accounts[i])
                  /\ CalculateForChild(c, now) =>
                        /\ accountFiles' = accountFiles
                        /\ childFiles' = childFiles
                        /\ lastResult'.status = "ok"
                        /\ lastResult'.clockSkewDetected]_vars

\* a run has found the clock behind the cbts of a child that has an account
C5_Witness ==
    /\ lastResult.clockSkewDetected
    /\ \E f \in DOMAIN childFiles :
          /\ childFiles[f].cbts = At(38, 12)
          /\ childFiles[f].accounts # << >>

C7_AchievedGoalExcluded ==
    /\ \A f \in DOMAIN accountFiles :
          storedAchieved(accountFiles[f]) =>
              \A last \in CalcInstants, now \in CalcInstants :
                  LET r == calculate(accountFiles[f], last, now)
                  IN  /\ r.accruals = << >>
                      /\ r.ledgerEntries = << >>
                      /\ r.newTimestamp = last
    /\ \A c \in ChildNames :
          LET accounts == getAllForChild(childFiles, accountFiles, c)
          IN  calculateChildTotalBalance(accounts) =
                  calculateChildTotalBalance(
                      SelectSeq(accounts, LAMBDA x : ~storedAchieved(x)))

\* an achieved account with an enabled allowance and a balance
C7_Witness ==
    \E f \in DOMAIN accountFiles :
        /\ storedAchieved(accountFiles[f])
        /\ accountFiles[f].allowance.enabled
        /\ storedBalance(accountFiles[f]) > 0

C11_AccrualDatesNotFuture ==
    probe.fn = "generateAccrualDates" =>
        LET dates == probe.accrualDates
        IN  probe.lastAccrualTimestamp <= probe.currentTimestamp =>
                /\ Len(dates) = calculatePeriodsBetween(probe.lastAccrualTimestamp,
                                                        probe.currentTimestamp,
                                                        probe.frequency)
                /\ \A i \in DOMAIN dates :
                      /\ dates[i] = startOfDay(dates[i])
                      /\ LocalTimeOfDay(dates[i]) = 0
                      /\ dates[i] <= startOfDay(probe.currentTimestamp)
                      /\ i > 1 => dates[i - 1] < dates[i]

\* C12: addMonths(date, n) with n >= 1 falls in the month n months after
\* the month of date, on the day of the month of date or, when that month
\* is shorter, on its last day.
C12_MonthlyAnchoring ==
    probe.fn = "addMonths" =>
        LET target == GetMonth(probe.date) + probe.months
            year == GetFullYear(probe.date) + (target \div 12)
            month == target % 12
        IN  /\ GetFullYear(probe.result) = year
            /\ GetMonth(probe.result) = month
            /\ GetDate(probe.result) = Min(GetDate(probe.date), DaysInMonth(year, month))

\* C13: a withdrawal of r from a stored account that is not achieved, with
\* balance b, appends one Withdraw entry of value -min(r, b), leaves the
\* balance b - min(r, b), which is not negative, returns min(r, b) as the
\* actual amount, and returns wasCapped and the capped message exactly when
\* r > b.
C13_WithdrawCapped ==
    \A c \in ChildNames, a \in AccountNames, r \in RequestAmounts, now \in NowValues :
        LET f == buildAccountFilename(c, a)
        IN  (fileExists(accountFiles, f) /\ ~storedAchieved(accountFiles[f])) =>
                LET b == storedBalance(accountFiles[f])
                    w == withdraw(accountFiles, c, a, r, UserText, now)
                IN  /\ ~w.threw
                    /\ w.files[f].ledger =
                          Append(accountFiles[f].ledger,
                                 [timestamp |-> now, type |-> "Withdraw",
                                  description |-> UserText, value |-> -Min(r, b)])
                    /\ \A g \in DOMAIN accountFiles : g # f => w.files[g] = accountFiles[g]
                    /\ w.actualAmount = Min(r, b)
                    /\ storedBalance(w.files[f]) = b - Min(r, b)
                    /\ SumValues(w.files[f].ledger) >= 0
                    /\ w.wasCapped <=> r > b
                    /\ Has(w.cappedMessage) <=> r > b
                    /\ Has(w.cappedMessage) => Val(w.cappedMessage) = Min(r, b)

\* a withdrawal of 150 from a balance of 100 has withdrawn 100, left 0 and
\* returned the capped flag
C13_Witness ==
    /\ lastResult.status = "ok"
    /\ lastResult.wasCapped
    /\ \E f \in DOMAIN accountFiles :
          LET ledger == accountFiles[f].ledger
          IN  /\ Len(ledger) = 2
              /\ ledger[1].value = Dollars(100)
              /\ ledger[2].type = "Withdraw"
              /\ ledger[2].value = -Dollars(100)
              /\ storedBalance(accountFiles[f]) = 0

\* C14: the sum of the values of every stored ledger, taken without the
\* floor at zero, is not negative.
C14_NoNegativeBalance ==
    \A f \in DOMAIN accountFiles : SumValues(accountFiles[f].ledger) >= 0

\* an allowance has been posted to an empty ledger and a larger withdrawal
\* has then emptied the account
C14_Witness ==
    \E f \in DOMAIN accountFiles :
        LET ledger == accountFiles[f].ledger
        IN  /\ Len(ledger) = 2
            /\ ledger[1].description.kind = "Allowance"
            /\ ledger[2].type = "Withdraw"
            /\ ledger[2].value = -ledger[1].value
            /\ SumValues(ledger) = 0

\* C15: every stored ledger is sorted by timestamp, ascending.
C15_LedgerSorted ==
    \A f \in DOMAIN accountFiles :
        LET ledger == accountFiles[f].ledger
        IN  \A i \in DOMAIN ledger :
                i > 1 => ledger[i - 1].timestamp <= ledger[i].timestamp

\* C16: every stored entry of type Deposit has a value greater than zero
\* and every stored entry of type Withdraw a value less than zero.
C16_EntrySign ==
    \A f \in DOMAIN accountFiles :
        LET ledger == accountFiles[f].ledger
        IN  \A i \in DOMAIN ledger :
                /\ ledger[i].type = "Deposit" => ledger[i].value > 0
                /\ ledger[i].type = "Withdraw" => ledger[i].value < 0

\* C17: every value of every stored ledger is a whole number; each stored
\* allowance accrual is roundUp of the amount of its allowance, and each
\* stored interest accrual is a whole number.
C17_NoFractionalCurrency ==
    \A f \in DOMAIN accountFiles :
        LET ledger == accountFiles[f].ledger
        IN  \A i \in DOMAIN ledger :
                /\ IsInteger(ledger[i].value)
                /\ ledger[i].description.kind = "Allowance" =>
                       ledger[i].value = roundUp(ledger[i].description.value)

\* C18: a transfer of r from an account with balance a > 0 to another
\* account of the same child, neither of them achieved, succeeds, appends
\* one Withdraw of -min(r, a) to the first and one Deposit of min(r, a) to
\* the second, leaves the sum of the two balances as it was, and returns
\* wasCapped exactly when r > a.
C18_TransferConserves ==
    \A c \in ChildNames, from \in AccountNames, to \in AccountNames,
       r \in RequestAmounts, now \in NowValues :
        LET ff == buildAccountFilename(c, from)
            tf == buildAccountFilename(c, to)
        IN  (/\ from # to
             /\ fileExists(accountFiles, ff) /\ fileExists(accountFiles, tf)
             /\ ~storedAchieved(accountFiles[ff]) /\ ~storedAchieved(accountFiles[tf])
             /\ storedBalance(accountFiles[ff]) > 0) =>
                LET a == storedBalance(accountFiles[ff])
                    t == transfer(accountFiles, c, from, to, r, now, now)
                IN  /\ ~t.threw
                    /\ t.actualAmount = Min(r, a)
                    /\ t.files[ff].ledger =
                          Append(accountFiles[ff].ledger,
                                 [timestamp |-> now, type |-> "Withdraw",
                                  description |-> TransferText("TransferTo",
                                                               accountFiles[tf].name),
                                  value |-> -Min(r, a)])
                    /\ t.files[tf].ledger =
                          Append(accountFiles[tf].ledger,
                                 [timestamp |-> now, type |-> "Deposit",
                                  description |-> TransferText("TransferFrom",
                                                               accountFiles[ff].name),
                                  value |-> Min(r, a)])
                    /\ storedBalance(t.files[ff]) + storedBalance(t.files[tf]) =
                          a + storedBalance(accountFiles[tf])
                    /\ t.wasCapped <=> r > a

\* a transfer of 150 from the 100 of Savings has moved 100 to Bike and
\* returned the capped flag
C18_Witness ==
    /\ lastResult.status = "ok"
    /\ lastResult.wasCapped
    /\ LET savings == accountFiles[buildAccountFilename("Emma", "Savings")].ledger
           bike == accountFiles[buildAccountFilename("Emma", "Bike")].ledger
       IN  /\ Len(savings) = 2
           /\ savings[2].type = "Withdraw"
           /\ savings[2].description.kind = "TransferTo"
           /\ savings[2].value = -Dollars(100)
           /\ Len(bike) = 1
           /\ bike[1].type = "Deposit"
           /\ bike[1].description.kind = "TransferFrom"
           /\ bike[1].value = Dollars(100)

\* C19: when a run has caught the error of an account, the error is in the
\* errors of its result; and a run that has read a clock value a week or
\* more after RunsStart has posted the allowance of every account that
\* the store can write, of every child that it can write.
C19_PartialFailureReported ==
    /\ lastResult.accountErrors > 0 => lastResult.status = "error"
    /\ \A c \in ChildNames, a \in AccountNames :
          LET cf == buildChildFilename(c)
              af == buildAccountFilename(c, a)
          IN  (/\ fileExists(childFiles, cf) /\ fileExists(accountFiles, af)
               /\ cf \notin unwritable /\ af \notin unwritable
               /\ childFiles[cf].cbts >= RunsStart + MS_PER_WEEK) =>
                  CountKind(accountFiles[af].ledger, "Allowance") >= 1

\* C20: a step never adds an allowance or an interest entry to a stored
\* Goal account whose balance is at or over the cost of its goal, whether
\* or not the goal has been marked achieved.
C20_NoAccrualAfterGoalReached ==
    [][\A f \in DOMAIN accountFiles :
          (/\ f \in DOMAIN accountFiles'
           /\ accountFiles[f].type = "Goal"
           /\ isGoalAchieved(accountFiles[f])) =>
              /\ CountKind(accountFiles'[f].ledger, "Allowance")
                    = CountKind(accountFiles[f].ledger, "Allowance")
              /\ CountKind(accountFiles'[f].ledger, "Interest")
                    = CountKind(accountFiles[f].ledger, "Interest")]_vars

\* C21: every stored account whose allowance is enabled has a frequency and
\* an amount that is a positive whole number, and every stored account
\* whose interest is enabled has a type, a frequency and a positive value.
C21_StoredConfigValid ==
    \A f \in DOMAIN accountFiles :
        LET allowance == accountFiles[f].allowance
            interest == accountFiles[f].interest
        IN  /\ allowance.enabled =>
                  /\ Has(allowance.amount)
                  /\ Has(allowance.frequency)
                  /\ Val(allowance.amount) > 0
                  /\ IsInteger(Val(allowance.amount))
            /\ interest.enabled =>
                  /\ Has(interest.type)
                  /\ Has(interest.value)
                  /\ Has(interest.frequency)
                  /\ Val(interest.value) > 0

\* C22: a deleteChild step leaves no file of the child, no file of an
\* account that the child listed, no backup of any of them, and no
\* reference to the child in the parent; a deleteAccount step that succeeds
\* leaves no file and no backup of the account and no reference to it in
\* the child, and leaves the other account files and their backups as they
\* were.
C22_CascadeDelete ==
    [][/\ \A c \in ChildNames :
             DeleteChild(c) =>
                 LET cf == buildChildFilename(c)
                     owned == IF fileExists(childFiles, cf)
                              THEN childFiles[cf].accounts ELSE << >>
                 IN  /\ ~fileExists(childFiles', cf)
                     /\ getBackupFilename(cf) \notin backupFiles'
                     /\ \A i \in DOMAIN owned :
                           LET af == buildAccountFilename(c, owned[i])
                           IN  /\ ~fileExists(accountFiles', af)
                               /\ getBackupFilename(af) \notin backupFiles'
                     /\ \A j \in DOMAIN parent'.children :
                           normalizeName(parent'.children[j]) # normalizeName(c)
       /\ \A c \in ChildNames, a \in AccountNames, confirm \in BOOLEAN :
             (DeleteAccount(c, a, confirm) /\ lastResult'.status = "ok") =>
                 LET cf == buildChildFilename(c)
                     af == buildAccountFilename(c, a)
                 IN  /\ ~fileExists(accountFiles', af)
                     /\ getBackupFilename(af) \notin backupFiles'
                     /\ \A i \in DOMAIN childFiles'[cf].accounts :
                           normalizeName(childFiles'[cf].accounts[i]) # normalizeName(a)
                     /\ \A f \in DOMAIN accountFiles \ {af} :
                           /\ fileExists(accountFiles', f)
                           /\ accountFiles'[f] = accountFiles[f]
                           /\ (getBackupFilename(f) \in backupFiles')
                                 = (getBackupFilename(f) \in backupFiles)]_vars

\* the account Bike has been deleted after it had been overwritten, and the
\* account Savings is still stored and listed, with its backup
C22_Witness ==
    /\ ~fileExists(accountFiles, buildAccountFilename("Emma", "Bike"))
    /\ lastResult.status = "ok"
    /\ ops = MaxCascadeOps
    /\ fileExists(childFiles, buildChildFilename("Emma"))
    /\ childFiles[buildChildFilename("Emma")].accounts = <<"savings">>
    /\ childFiles[buildChildFilename("Emma")].cb = Dollars(100)
    /\ getBackupFilename(buildAccountFilename("Emma", "Savings")) \in backupFiles

\* C23: for every stored account, calculate over the week after the clock
\* emits no allowance accrual when the enabled allowance lacks its amount or
\* its frequency, and no interest accrual when the enabled interest lacks
\* its type, its value or its frequency.
C23_MissingFieldDisabled ==
    \A f \in DOMAIN accountFiles :
        LET account == accountFiles[f]
            kinds(incomplete) ==
                LET r == calculate(incomplete, clock, clock + MS_PER_WEEK)
                IN  {r.accruals[i].type : i \in DOMAIN r.accruals}
        IN  /\ account.allowance.enabled =>
                  /\ "allowance" \notin
                        kinds([account EXCEPT !.allowance.amount = Undefined])
                  /\ "allowance" \notin
                        kinds([account EXCEPT !.allowance.frequency = Undefined])
            /\ account.interest.enabled =>
                  /\ "interest" \notin
                        kinds([account EXCEPT !.interest.type = Undefined])
                  /\ "interest" \notin
                        kinds([account EXCEPT !.interest.value = Undefined])
                  /\ "interest" \notin
                        kinds([account EXCEPT !.interest.frequency = Undefined])

\* C24: no step of a calculation run stores an account file under a key
\* that is absent, that is, no run brings back the file of an account that
\* has been deleted (no step of the specification of the interleaved calls
\* creates an account).
C24_DeletedStaysDeleted ==
    [][(RunStart("Emma", clock') \/ RunCalculate \/ RunSave \/ RunFinish) =>
          DOMAIN accountFiles' \subseteq DOMAIN accountFiles]_vars

\* C25: at most one calculateAll that runBalanceCalculation has called is
\* in flight.
C25_OneRunInFlight ==
    "app" \in DOMAIN tasks => tasks["app"].running <= 1

\* C26: in every step, each account file that is stored before and after
\* the step holds afterwards every entry that its ledger held before, as
\* many times as before.
C26_EntriesNeverLost ==
    [][\A f \in DOMAIN accountFiles \cap DOMAIN accountFiles' :
          LET old == accountFiles[f].ledger
              new == accountFiles'[f].ledger
          IN  \A i \in DOMAIN old :
                  Cardinality({j \in DOMAIN new : new[j] = old[i]})
                      >= Cardinality({j \in DOMAIN old : old[j] = old[i]})]_vars

\* C27: when the local date of currentTimestamp is 7k days (weekly) or 14k
\* days (bi-weekly) after the local date of lastAccrualTimestamp,
\* calculatePeriodsBetween returns k.
C27_PeriodsByCalendarDays ==
    (probe.fn = "generateAccrualDates" /\ probe.frequency \in {"weekly", "bi-weekly"}) =>
        LET days == LocalDay(probe.currentTimestamp) - LocalDay(probe.lastAccrualTimestamp)
            width == IF probe.frequency = "weekly" THEN 7 ELSE 14
        IN  (days >= 0 /\ days % width = 0) => probe.periods = days \div width

\* C28: a transfer step stores the Withdraw entry of the source and the
\* Deposit entry of the destination together or not at all, and does not
\* reduce the sum of the balances of the accounts of the child.
C28_TransferAllOrNothing ==
    [][\A a \in AccountNames, b \in AccountNames, x \in LedgerAmounts, now \in FailTimes :
          (a # b /\ Transfer("Emma", a, b, x, now, now)) =>
              LET from == buildAccountFilename("Emma", a)
                  to == buildAccountFilename("Emma", b)
              IN  /\ (CountKind(accountFiles'[from].ledger, "TransferTo")
                         > CountKind(accountFiles[from].ledger, "TransferTo"))
                     = (CountKind(accountFiles'[to].ledger, "TransferFrom")
                           > CountKind(accountFiles[to].ledger, "TransferFrom"))
                  /\ OpenBalance(getAllForChild(childFiles', accountFiles', "Emma"))
                        >= OpenBalance(getAllForChild(childFiles, accountFiles, "Emma"))]_vars

\* C29: a calculateForChild step that succeeds with no account error while
\* the store writes every file leaves, in each account of the child, at
\* least one allowance entry for each week between the creation of the
\* account and the clock value of the run, also when the append of an
\* earlier run failed.
C29_AccrualsNotLost ==
    [][\A c \in ChildNames, now \in FailTimes :
          (/\ CalculateForChild(c, now)
           /\ unwritable = {}
           /\ lastResult'.status = "ok"
           /\ lastResult'.accountErrors = 0) =>
              \A a \in AccountNames :
                  LET af == buildAccountFilename(c, a)
                  IN  fileExists(accountFiles', af) =>
                          CountKind(accountFiles'[af].ledger, "Allowance")
                              >= calculatePeriodsBetween(RunsStart, now, "weekly")]_vars

\* C30: a step that creates, credits or deletes an account of one stored
\* child leaves every account file that another child lists stored and as
\* it was.
C30_KeysInjective ==
    [][\A c \in KeyChildNames, a \in KeyAccountNames :
          (/\ fileExists(childFiles, buildChildFilename(c))
           /\ \/ \E d \in AccountInputs : CreateAccount(c, a, d)
              \/ \E x \in DepositAmounts, now \in NowValues : Deposit(c, a, x, now)
              \/ DeleteAccount(c, a, TRUE)) =>
              \A other \in KeyChildNames \ {c} :
                  LET cf == buildChildFilename(other)
                      listed == IF fileExists(childFiles, cf)
                                THEN childFiles[cf].accounts ELSE << >>
                  IN  \A i \in DOMAIN listed :
                          LET f == buildAccountFilename(other, listed[i])
                          IN  fileExists(accountFiles, f) =>
                                  /\ fileExists(accountFiles', f)
                                  /\ accountFiles'[f] = accountFiles[f]]_vars

====
